---- MODULE Spec2Model ----
(***************************************************************************)
(* Model of nr-labs-chart-refresh-updater.py: the GraphQL client, the      *)
(* dashboard fetch/update operations, the widget transformation engine     *)
(* and the batch loop of process_dashboard_updates.                        *)
(*                                                                         *)
(* JSON values (Python objects decoded by json.loads) are tagged records   *)
(* [t, v]: t is the Python type, v the payload.  A dict's payload is a     *)
(* function from its keys to JSON values, a list's payload a sequence.     *)
(***************************************************************************)
EXTENDS Integers, Sequences, FiniteSets, TLC

\* ------------------------------------------------------------------------
\* JSON values and the Python operations the script applies to them
\* ------------------------------------------------------------------------

JNull == [t |-> "null", v |-> 0]
JBool(b) == [t |-> "bool", v |-> b]
JNum(n) == [t |-> "num", v |-> n]
JStr(s) == [t |-> "str", v |-> s]
JList(s) == [t |-> "list", v |-> s]
JDict(f) == [t |-> "dict", v |-> f]

EmptyDict == JDict(<<>>)

\* Python truthiness: `if x:` / `not x`
Truthy(x) ==
    CASE x.t = "null" -> FALSE
      [] x.t = "bool" -> x.v
      [] x.t = "num"  -> x.v # 0
      [] x.t = "str"  -> x.v # ""
      [] x.t = "list" -> Len(x.v) > 0
      [] x.t = "dict" -> DOMAIN x.v # {}

\* isinstance(x, dict) / isinstance(x, list)
IsDict(x) == x.t = "dict"
IsList(x) == x.t = "list"

\* `k in d` for a dict d
HasKey(d, k) == k \in DOMAIN d.v

\* d.get(k): the value, or None when the key is absent
DictGet(d, k) == IF HasKey(d, k) THEN d.v[k] ELSE JNull

\* d[k] = val
DictSet(d, k, val) ==
    JDict([y \in (DOMAIN d.v) \cup {k} |-> IF y = k THEN val ELSE d.v[y]])

\* del d[k]
DictDel(d, k) == JDict([y \in (DOMAIN d.v) \ {k} |-> d.v[y]])

\* lst[i] = val (1-based here)
ListSet(l, i, val) == JList([l.v EXCEPT ![i] = val])

\* ------------------------------------------------------------------------
\* Error classes
\* ------------------------------------------------------------------------

NoError == "none"

\* Evaluating GraphQLApiError(...) with nargs positional arguments:
\* __init__(self, message, status, reason) has no defaults, so a call with
\* fewer than three arguments raises TypeError instead of building the error.
GraphQLApiError(nargs) == IF nargs = 3 THEN "GraphQLApiError" ELSE "TypeError"

DashboardNotFoundError == "DashboardNotFoundError"
DashboardValidationError == "DashboardValidationError"

\* Results of a call: the exception it raised (NoError when it returned) and
\* the value it returned.
Ok(val) == [err |-> NoError, value |-> val]
Raise(e) == [err |-> e, value |-> JNull]

\* ------------------------------------------------------------------------
\* Helper functions
\* ------------------------------------------------------------------------

RECURSIVE get_nested_helper(_, _, _)
\* index is 0-based as in the source; arr is 1-based here
get_nested_helper(val, arr, index) ==
    IF index = Len(arr) THEN JBool(FALSE)
    ELSE IF val.t = "dict" THEN
        LET key == arr[index + 1] IN
        IF index = Len(arr) - 1
        THEN (IF HasKey(val, key) THEN val.v[key] ELSE JNull)
        ELSE (IF HasKey(val, key)
              THEN get_nested_helper(val.v[key], arr, index + 1)
              ELSE JNull)
    ELSE JBool(FALSE)

\* path is the result of path.split('.'): a non-empty sequence of segments
get_nested(d, path) == get_nested_helper(d, path, 0)

\* ------------------------------------------------------------------------
\* GraphQL functions
\* ------------------------------------------------------------------------

\* What one urlopen call meets:
\*   raises : the exception urlopen itself raises ("none" when it returns a
\*            response): HTTPError for an error status, URLError for a
\*            refused connection, TimeoutError for the 30 s timeout
\*   status : response.status
\*   read   : "ok", or "OSError" when response.read() fails
\*   body   : the decoded JSON body
HttpAnswer(raises, status, read, body) ==
    [raises |-> raises, status |-> status, read |-> read, body |-> body]

HttpOk(body) == HttpAnswer("none", 200, "ok", body)

\* What the `if 'errors' in response_json` block raises: it iterates over
\* the value, calls error.get('message') on each item and joins the messages
\* before it builds the GraphQLApiError
errors_raise(errors) ==
    CASE errors.t \in {"null", "bool", "num"} -> "TypeError"
      [] errors.t = "str" ->
            IF errors.v = "" THEN GraphQLApiError(3) ELSE "AttributeError"
      [] errors.t = "dict" ->
            IF DOMAIN errors.v = {} THEN GraphQLApiError(3) ELSE "AttributeError"
      [] errors.t = "list" ->
            IF \E i \in 1..Len(errors.v) : ~IsDict(errors.v[i])
            THEN "AttributeError"
            ELSE IF \E i \in 1..Len(errors.v) :
                        DictGet(errors.v[i], "message").t # "str"
            THEN "TypeError"
            ELSE GraphQLApiError(3)

\* post_graphql returning response_json['data'] whenever the body holds
\* data, and looking at 'errors' only when it does not
post_graphql_data_first(resp) ==
    IF resp.raises = "HTTPError" THEN Raise(GraphQLApiError(3))
    ELSE IF resp.raises # "none" THEN Raise(resp.raises)
    ELSE IF resp.status # 200 THEN Raise(GraphQLApiError(3))
    ELSE IF resp.read # "ok" THEN Raise(GraphQLApiError(3))
    ELSE IF ~IsDict(resp.body) THEN Raise("TypeError")
    ELSE IF HasKey(resp.body, "data") THEN Ok(resp.body.v["data"])
    ELSE IF HasKey(resp.body, "errors") THEN Raise(errors_raise(resp.body.v["errors"]))
    ELSE Raise("KeyError")

post_graphql(resp) ==
    IF resp.raises = "HTTPError" THEN Raise(GraphQLApiError(3))
    ELSE IF resp.raises # "none" THEN Raise(resp.raises)
    ELSE IF resp.status # 200 THEN Raise(GraphQLApiError(3))
    ELSE IF resp.read # "ok" THEN Raise(GraphQLApiError(3))
    ELSE IF ~IsDict(resp.body) THEN Raise("TypeError")
    ELSE IF HasKey(resp.body, "errors") THEN Raise(errors_raise(resp.body.v["errors"]))
    ELSE IF ~HasKey(resp.body, "data") THEN Raise("KeyError")
    ELSE Ok(resp.body.v["data"])

\* next_cursor_path = None (or '') is the empty sequence of segments
NoCursorPath == <<>>

\* next_cursor == False in Python: True for False and for 0
EqualsFalse(x) == (x.t = "bool" /\ x.v = FALSE) \/ (x.t = "num" /\ x.v = 0)

\* query_graphql never passing the extracted cursor on: every request
\* carries a null cursor
request_variables_null_cursor(next_cursor_path, next_cursor) ==
    IF next_cursor_path # NoCursorPath
    THEN JDict([cursor |-> JNull])
    ELSE EmptyDict

\* The variables the loop adds to the request before each POST:
\* variables['cursor'] = ('String', next_cursor) when a cursor path is given
request_variables(next_cursor_path, next_cursor) ==
    IF next_cursor_path # NoCursorPath
    THEN JDict([cursor |-> next_cursor])
    ELSE EmptyDict

\* One iteration of `while not done`, the POST answered by resp: the
\* exception it raises, and the locals done, next_cursor and results after it
query_graphql_iteration(next_cursor_path, next_cursor, results, resp) ==
    LET gql_result == post_graphql(resp) IN
    IF gql_result.err # NoError
    THEN [err |-> gql_result.err, done |-> FALSE, next_cursor |-> next_cursor,
          results |-> results]
    ELSE
        LET results2 == Append(results, gql_result.value)
            next_cursor2 == IF next_cursor_path # NoCursorPath
                            THEN get_nested(gql_result.value, next_cursor_path)
                            ELSE next_cursor
        IN
        IF next_cursor_path # NoCursorPath /\ EqualsFalse(next_cursor2)
        THEN [err |-> GraphQLApiError(1), done |-> FALSE,
              next_cursor |-> next_cursor2, results |-> results2]
        ELSE [err |-> NoError, done |-> ~Truthy(next_cursor2),
              next_cursor |-> next_cursor2, results |-> results2]

RECURSIVE query_graphql_loop(_, _, _, _)
\* One iteration of `while not done` per element of resps, the answers the
\* server gives to the successive POSTs.  value is the list `results`.
query_graphql_loop(resps, next_cursor_path, next_cursor, results) ==
    LET it == query_graphql_iteration(next_cursor_path, next_cursor, results,
                                      Head(resps)) IN
    IF it.err # NoError THEN Raise(it.err)
    ELSE IF it.done THEN Ok(JList(it.results))
    \* the given answers are used up while the cursor asks for another page
    ELSE IF Len(resps) = 1 THEN Raise("NoMoreAnswers")
    ELSE query_graphql_loop(Tail(resps), next_cursor_path, it.next_cursor,
                            it.results)

query_graphql(resps, next_cursor_path) ==
    query_graphql_loop(resps, next_cursor_path, JNull, <<>>)

get_dashboard(resp) ==
    LET results == query_graphql(<<resp>>, NoCursorPath) IN
    IF results.err # NoError THEN Raise(results.err)
    ELSE IF Len(results.value.v) # 1 THEN Raise(GraphQLApiError(1))
    ELSE
        LET dashboard == get_nested(results.value.v[1], <<"actor", "entity">>) IN
        IF ~IsDict(dashboard) THEN Raise(GraphQLApiError(1))
        ELSE Ok(dashboard)

update_dashboard(resp) ==
    LET results == query_graphql(<<resp>>, NoCursorPath) IN
    IF results.err # NoError THEN Raise(results.err)
    ELSE IF Len(results.value.v) # 1 THEN Raise(GraphQLApiError(1))
    ELSE
        \* the whole list `results` is handed to get_nested, not results[0]
        LET errors == get_nested(results.value, <<"dashboardUpdate", "errors">>) IN
        IF Truthy(errors)
        THEN (IF errors.t \in {"list", "dict", "str"}
              THEN Raise(GraphQLApiError(1))
              ELSE Raise("TypeError"))
        ELSE Ok(JNull)

\* ------------------------------------------------------------------------
\* Dashboard processing: the widget transformation engine
\* ------------------------------------------------------------------------

\* A transformer or walk that raised: the exception and the tree as the
\* in-place mutations left it at that point.
Fail(e, val) == [err |-> e, value |-> val]

\* transform_linked_entities with `if guids:` guarding the assignment of
\* linkedEntityGuids: an empty list of guids leaves the key out
transform_linked_entities_omit_empty(widget) ==
    LET linkedEntities == DictGet(widget, "linkedEntities")
        removed == IF HasKey(widget, "linkedEntities")
                   THEN DictDel(widget, "linkedEntities")
                   ELSE widget
    IN
    IF linkedEntities.t = "null" THEN Ok(removed)
    ELSE IF ~IsList(linkedEntities) THEN Fail(DashboardValidationError, widget)
    ELSE IF \E i \in 1..Len(linkedEntities.v) : ~IsDict(linkedEntities.v[i])
         THEN Fail(DashboardValidationError, widget)
    ELSE
        LET withGuid == SelectSeq(linkedEntities.v, LAMBDA e : HasKey(e, "guid"))
            guids == [i \in 1..Len(withGuid) |-> withGuid[i].v["guid"]]
        IN IF Len(guids) = 0 THEN Ok(removed)
           ELSE Ok(DictDel(DictSet(widget, "linkedEntityGuids", JList(guids)),
                           "linkedEntities"))

\* transform_linked_entities appending entity.get('guid') for every entry,
\* None for an entry without guid
transform_linked_entities_get_guid(widget) ==
    LET linkedEntities == DictGet(widget, "linkedEntities")
        removed == IF HasKey(widget, "linkedEntities")
                   THEN DictDel(widget, "linkedEntities")
                   ELSE widget
    IN
    IF linkedEntities.t = "null" THEN Ok(removed)
    ELSE IF ~IsList(linkedEntities) THEN Fail(DashboardValidationError, widget)
    ELSE IF \E i \in 1..Len(linkedEntities.v) : ~IsDict(linkedEntities.v[i])
         THEN Fail(DashboardValidationError, widget)
    ELSE
        LET guids == [i \in 1..Len(linkedEntities.v) |->
                          DictGet(linkedEntities.v[i], "guid")]
        IN Ok(DictDel(DictSet(widget, "linkedEntityGuids", JList(guids)),
                      "linkedEntities"))

\* transform_linked_entities storing the guids in the widget as it collects
\* them: an entry that is not a mapping raises with the guids found before
\* it already in linkedEntityGuids
transform_linked_entities_store_early(widget) ==
    LET linkedEntities == DictGet(widget, "linkedEntities")
        removed == IF HasKey(widget, "linkedEntities")
                   THEN DictDel(widget, "linkedEntities")
                   ELSE widget
    IN
    IF linkedEntities.t = "null" THEN Ok(removed)
    ELSE IF ~IsList(linkedEntities) THEN Fail(DashboardValidationError, widget)
    ELSE IF \E i \in 1..Len(linkedEntities.v) : ~IsDict(linkedEntities.v[i])
         THEN LET bad == CHOOSE i \in 1..Len(linkedEntities.v) :
                            /\ ~IsDict(linkedEntities.v[i])
                            /\ \A k \in 1..(i - 1) : IsDict(linkedEntities.v[k])
                  found == SelectSeq(SubSeq(linkedEntities.v, 1, bad - 1),
                                     LAMBDA e : HasKey(e, "guid"))
              IN Fail(DashboardValidationError,
                      DictSet(widget, "linkedEntityGuids",
                              JList([i \in 1..Len(found) |-> found[i].v["guid"]])))
    ELSE
        LET withGuid == SelectSeq(linkedEntities.v, LAMBDA e : HasKey(e, "guid"))
            guids == [i \in 1..Len(withGuid) |-> withGuid[i].v["guid"]]
        IN Ok(DictDel(DictSet(widget, "linkedEntityGuids", JList(guids)),
                      "linkedEntities"))

transform_linked_entities(widget) ==
    LET linkedEntities == DictGet(widget, "linkedEntities")
        removed == IF HasKey(widget, "linkedEntities")
                   THEN DictDel(widget, "linkedEntities")
                   ELSE widget
    IN
    IF linkedEntities.t = "null" THEN Ok(removed)
    ELSE IF ~IsList(linkedEntities) THEN Fail(DashboardValidationError, widget)
    ELSE IF \E i \in 1..Len(linkedEntities.v) : ~IsDict(linkedEntities.v[i])
         THEN Fail(DashboardValidationError, widget)
    ELSE
        LET withGuid == SelectSeq(linkedEntities.v, LAMBDA e : HasKey(e, "guid"))
            guids == [i \in 1..Len(withGuid) |-> withGuid[i].v["guid"]]
        IN Ok(DictDel(DictSet(widget, "linkedEntityGuids", JList(guids)),
                      "linkedEntities"))

\* update_refresh_rate storing a fresh { 'frequency': refresh_rate } mapping
\* whether or not the widget already has a refreshRate
update_refresh_rate_fresh_mapping(widget, refresh_rate) ==
    LET rawConfiguration == DictGet(widget, "rawConfiguration") IN
    IF rawConfiguration.t = "null" THEN Ok(widget)
    ELSE IF ~IsDict(rawConfiguration) THEN Fail(DashboardValidationError, widget)
    ELSE IF HasKey(rawConfiguration, "refreshRate")
            /\ ~IsDict(rawConfiguration.v["refreshRate"])
    THEN Fail(DashboardValidationError, widget)
    ELSE Ok(DictSet(widget, "rawConfiguration",
                DictSet(rawConfiguration, "refreshRate",
                    JDict([frequency |-> JNum(refresh_rate)]))))

\* update_refresh_rate keeping the frequency it replaces under 'previous'
update_refresh_rate_keep_previous(widget, refresh_rate) ==
    LET rawConfiguration == DictGet(widget, "rawConfiguration") IN
    IF rawConfiguration.t = "null" THEN Ok(widget)
    ELSE IF ~IsDict(rawConfiguration) THEN Fail(DashboardValidationError, widget)
    ELSE IF HasKey(rawConfiguration, "refreshRate") THEN
        LET refreshRate == rawConfiguration.v["refreshRate"] IN
        IF ~IsDict(refreshRate) THEN Fail(DashboardValidationError, widget)
        ELSE Ok(DictSet(widget, "rawConfiguration",
                    DictSet(rawConfiguration, "refreshRate",
                        DictSet(DictSet(refreshRate, "previous",
                                        DictGet(refreshRate, "frequency")),
                                "frequency", JNum(refresh_rate)))))
    ELSE Ok(DictSet(widget, "rawConfiguration",
                DictSet(rawConfiguration, "refreshRate",
                    JDict([frequency |-> JNum(refresh_rate)]))))

update_refresh_rate(widget, refresh_rate) ==
    LET rawConfiguration == DictGet(widget, "rawConfiguration") IN
    \* a missing or null rawConfiguration is replaced by a local {} that is
    \* never stored in the widget
    IF rawConfiguration.t = "null" THEN Ok(widget)
    ELSE IF ~IsDict(rawConfiguration) THEN Fail(DashboardValidationError, widget)
    ELSE IF HasKey(rawConfiguration, "refreshRate") THEN
        LET refreshRate == rawConfiguration.v["refreshRate"] IN
        IF ~IsDict(refreshRate) THEN Fail(DashboardValidationError, widget)
        ELSE Ok(DictSet(widget, "rawConfiguration",
                    DictSet(rawConfiguration, "refreshRate",
                        DictSet(refreshRate, "frequency", JNum(refresh_rate)))))
    ELSE Ok(DictSet(widget, "rawConfiguration",
                DictSet(rawConfiguration, "refreshRate",
                    JDict([frequency |-> JNum(refresh_rate)]))))

\* transformerFn(guid, pageGuid, widgetId, widget): the two transformers the
\* script passes to transform_widgets
transformerFn(fn, widget, refresh_rate) ==
    IF fn = "transform_linked_entities"
    THEN transform_linked_entities(widget)
    ELSE update_refresh_rate(widget, refresh_rate)

RECURSIVE transform_widget_loop(_, _, _, _)
\* `for widget in page['widgets']`, from the j-th widget on
transform_widget_loop(widgets, j, fn, refresh_rate) ==
    IF j > Len(widgets.v) THEN Ok(widgets)
    ELSE IF ~IsDict(widgets.v[j]) THEN Fail(DashboardValidationError, widgets)
    ELSE
        LET res == transformerFn(fn, widgets.v[j], refresh_rate)
            widgets2 == ListSet(widgets, j, res.value)
        IN
        IF res.err # NoError THEN Fail(res.err, widgets2)
        ELSE transform_widget_loop(widgets2, j + 1, fn, refresh_rate)

RECURSIVE transform_page_loop(_, _, _, _)
\* `for page in dashboard['pages']`, from the i-th page on
transform_page_loop(pages, i, fn, refresh_rate) ==
    IF i > Len(pages.v) THEN Ok(pages)
    ELSE IF ~IsDict(pages.v[i]) THEN Fail(DashboardValidationError, pages)
    ELSE
        LET page == pages.v[i]
            widgets == DictGet(page, "widgets")
        IN
        IF ~Truthy(widgets) THEN transform_page_loop(pages, i + 1, fn, refresh_rate)
        ELSE IF ~IsList(widgets) THEN Fail(DashboardValidationError, pages)
        ELSE
            LET res == transform_widget_loop(widgets, 1, fn, refresh_rate)
                pages2 == ListSet(pages, i, DictSet(page, "widgets", res.value))
            IN
            IF res.err # NoError THEN Fail(res.err, pages2)
            ELSE transform_page_loop(pages2, i + 1, fn, refresh_rate)

transform_widgets(dashboard, fn, refresh_rate) ==
    LET pages == DictGet(dashboard, "pages") IN
    IF ~Truthy(pages) THEN Ok(dashboard)
    ELSE IF ~IsList(pages) THEN Fail(DashboardValidationError, dashboard)
    ELSE
        LET res == transform_page_loop(pages, 1, fn, refresh_rate) IN
        Fail(res.err, DictSet(dashboard, "pages", res.value))

fixup_linked_entities(dashboard) ==
    transform_widgets(dashboard, "transform_linked_entities", 0)

update_refresh_rates(dashboard, refresh_rate) ==
    transform_widgets(dashboard, "update_refresh_rate", refresh_rate)

\* ------------------------------------------------------------------------
\* Inputs: the configurations and the server's answers
\* ------------------------------------------------------------------------

\* Most entries of config['dashboards'] a run is given
MaxEntries == 2

RECURSIVE SeqsUpTo(_, _)
\* The sequences over S of length 0..n
SeqsUpTo(S, n) ==
    IF n = 0 THEN {<<>>}
    ELSE LET shorter == SeqsUpTo(S, n - 1) IN
         shorter \cup {Append(q, x) : q \in {r \in shorter : Len(r) = n - 1}, x \in S}

\* Entries of config['dashboards']: valid ones, one that is not a mapping,
\* one without guid and one with a falsy refreshRate
ConfigEntries ==
    { JDict([guid |-> JStr("g1"), refreshRate |-> JNum(1)]),
      JDict([guid |-> JStr("g2"), refreshRate |-> JNum(2)]),
      JStr("g1"),
      JDict([refreshRate |-> JNum(1)]),
      JDict([guid |-> JStr("g1"), refreshRate |-> JNum(0)]),
      JDict([guid |-> JStr(""), refreshRate |-> JNum(1)]),
      JDict([guid |-> JStr("g2")]) }

\* The loaded configuration file
Configs ==
    { JDict([dashboards |-> JList(l)]) : l \in SeqsUpTo(ConfigEntries, MaxEntries) }
    \cup { EmptyDict, JDict([dashboards |-> JStr("g1")]) }

\* backup_dir as main resolves it: None with --no-backup, else a directory
BackupDirs == { JNull, JStr("backups") }

\* Widgets as the server may return them
WidgetTypical ==
    JDict([id |-> JNum(1), title |-> JStr("cpu"), linkedEntities |-> JNull,
           rawConfiguration |->
               JDict([nrqlQueries |-> JStr("q"),
                      refreshRate |-> JDict([frequency |-> JNum(9)])])])
WidgetLinked ==
    JDict([id |-> JNum(2),
           linkedEntities |-> JList(<<JDict([guid |-> JStr("A")]),
                                      JDict([foo |-> JStr("x")])>>),
           rawConfiguration |-> JDict([nrqlQueries |-> JStr("q")])])
WidgetNoRawConfiguration == JDict([id |-> JNum(3)])
WidgetNullRawConfiguration ==
    JDict([id |-> JNum(4), linkedEntities |-> JList(<<>>),
           rawConfiguration |-> JNull])
WidgetBadRawConfiguration ==
    JDict([id |-> JNum(5), rawConfiguration |-> JStr("x")])
WidgetBadRefreshRate ==
    JDict([id |-> JNum(6),
           rawConfiguration |-> JDict([refreshRate |-> JNum(9)])])
WidgetBadLinkedEntities ==
    JDict([id |-> JNum(7), linkedEntities |-> JStr("A"),
           rawConfiguration |-> EmptyDict])
WidgetBadLinkedEntity ==
    JDict([id |-> JNum(8),
           linkedEntities |-> JList(<<JDict([guid |-> JStr("A")]), JStr("B")>>),
           rawConfiguration |-> EmptyDict])
WidgetRenamed ==
    JDict([id |-> JNum(9), linkedEntities |-> JNull,
           linkedEntityGuids |-> JList(<<JStr("B")>>),
           rawConfiguration |->
               JDict([refreshRate |-> JDict([frequency |-> JNum(1),
                                             unit |-> JStr("ms")])])])
WidgetNotADict == JStr("widget")
WidgetTwoLinked ==
    JDict([id |-> JNum(10),
           linkedEntities |-> JList(<<JDict([guid |-> JStr("A")]),
                                      JDict([foo |-> JStr("x")]),
                                      JDict([guid |-> JStr("B"),
                                             foo |-> JStr("y")])>>),
           rawConfiguration |-> JDict([nrqlQueries |-> JStr("q")])])

Widgets ==
    { WidgetTypical, WidgetLinked, WidgetNoRawConfiguration,
      WidgetNullRawConfiguration, WidgetBadRawConfiguration,
      WidgetBadRefreshRate, WidgetBadLinkedEntities, WidgetBadLinkedEntity,
      WidgetRenamed, WidgetNotADict, WidgetTwoLinked }

\* The widgets that are paired with each other on one page or on two pages
PairedWidgets ==
    { WidgetTypical, WidgetLinked, WidgetNoRawConfiguration,
      WidgetBadRefreshRate, WidgetBadLinkedEntities }

Page(widgets) == JDict([guid |-> JStr("p"), widgets |-> widgets])

PageLists ==
    { <<Page(JList(<<w>>))>> : w \in Widgets }
    \cup { <<Page(JList(<<w1, w2>>))>> : w1 \in PairedWidgets, w2 \in PairedWidgets }
    \cup { <<Page(JList(<<w1>>)), Page(JList(<<w2>>))>> :
              w1 \in PairedWidgets, w2 \in PairedWidgets }
    \cup { <<JDict([guid |-> JStr("p")]), Page(JList(<<WidgetLinked>>))>>,
           <<Page(JList(<<>>)), Page(JList(<<WidgetTypical>>))>>,
           <<Page(EmptyDict), Page(JList(<<WidgetLinked>>))>>,
           <<Page(JStr("widgets"))>>,
           <<Page(JList(<<WidgetLinked>>)), JStr("page")>>,
           <<>> }

\* Dashboard definitions (the actor.entity of a fetch answer)
Dashboards ==
    { JDict([name |-> JStr("d"), pages |-> JList(l)]) : l \in PageLists }
    \cup { JDict([name |-> JStr("d")]),
           JDict([name |-> JStr("d"), pages |-> JNull]),
           JDict([name |-> JStr("d"), pages |-> JStr("pages")]),
           JDict([name |-> JStr("d"), pages |-> EmptyDict]),
           JDict([name |-> JStr("d"), pages |-> JNum(0)]),
           JDict([name |-> JStr("d"), pages |-> JStr("")]) }

\* Answers that fail below the GraphQL payload, the same for every call
FailingAnswers ==
    { HttpAnswer("URLError", 0, "ok", JNull),
      HttpAnswer("TimeoutError", 0, "ok", JNull),
      HttpAnswer("HTTPError", 500, "ok", JNull),
      HttpAnswer("none", 204, "ok", JNull),
      HttpAnswer("none", 200, "OSError", JNull),
      HttpOk(JDict([errors |-> JList(<<JDict([message |-> JStr("x")])>>)])),
      HttpOk(EmptyDict) }

EntityAnswer(entity) ==
    HttpOk(JDict([data |-> JDict([actor |-> JDict([entity |-> entity])])]))

\* Answers to the fetch query
FetchAnswers ==
    FailingAnswers
    \cup { EntityAnswer(d) : d \in Dashboards }
    \cup { EntityAnswer(JNull), EntityAnswer(JStr("entity")),
           HttpOk(JDict([data |-> JDict([actor |-> EmptyDict])])),
           HttpOk(JDict([data |-> JDict([actor |-> JNull])])),
           HttpOk(JDict([data |-> EmptyDict])) }

UpdateErrorsAnswer(errors) ==
    HttpOk(JDict([data |-> JDict([dashboardUpdate |-> JDict([errors |-> errors])])]))

\* Answers to the update mutation
UpdateAnswers ==
    FailingAnswers
    \cup { UpdateErrorsAnswer(JNull),
           UpdateErrorsAnswer(JList(<<>>)),
           UpdateErrorsAnswer(JList(<<JDict([description |-> JStr("bad"),
                                             type |-> JStr("INVALID_INPUT")])>>)) }

\* Outcome of the backup file write, in the shape of an answer
FileAnswer(raises) == HttpAnswer(raises, 0, "ok", JNull)

\* ------------------------------------------------------------------------
\* process_dashboard_updates / process_dashboard_update as a state machine
\* ------------------------------------------------------------------------

VARIABLES
    config,      \* the loaded configuration
    backup_dir,  \* None, or the directory backups are written to
    pc,          \* where the run is: "start", "loop" (top of the for loop),
                 \* "get_dashboard", "fixup_linked_entities", "backup_dashboard",
                 \* "update_refresh_rates", "update_dashboard" (the statement of
                 \* process_dashboard_update about to run), "report", "done",
                 \* "fatal" (an exception left process_dashboard_updates)
    idx,         \* 1-based index of the entry the for loop is at
    dashboard,   \* the dashboard tree process_dashboard_update works on
    results,     \* the dict `results`: guid -> status
    report,      \* the status table logged at the end of the run
    raised,      \* the exception the last processing of an entry ended with
    calls,       \* the external calls made while processing the last entry
    query,       \* the frame of a paginated query_graphql call: its argument
                 \* next_cursor_path, the server it talks to, its locals done,
                 \* next_cursor and results, the requests it has posted and
                 \* the exception it was left with
    walk         \* the frame of a transform_widgets call that is followed step
                 \* by step: its arguments, the tree it works on, the page and
                 \* widget it is at, the widgets the transformer was invoked
                 \* on and the exception it was left with

vars == <<config, backup_dir, pc, idx, dashboard, results, report, raised, calls,
          query, walk>>

\* No paginated query is running: the batch run fetches and updates with
\* next_cursor_path = None
NoQuery ==
    [next_cursor_path |-> NoCursorPath, server |-> <<>>, done |-> TRUE,
     next_cursor |-> JNull, results |-> <<>>, requests |-> <<>>,
     raised |-> NoError]

\* One external call: the operation, the guid, the dashboard handed to it
\* and the answer it met
Call(op, guid, arg, ans) == [op |-> op, guid |-> guid, arg |-> arg, ans |-> ans]

Entry == config.v["dashboards"].v[idx]
EntryGuid == DictGet(Entry, "guid")
EntryRefreshRate == DictGet(Entry, "refreshRate")

\* The loop testing the guid only: `if not guid` for `if not guid or not
\* refresh_rate`
ValidEntry_guid_only(e) ==
    IsDict(e) /\ Truthy(DictGet(e, "guid"))

\* The entries the loop does not skip
ValidEntry(e) ==
    IsDict(e) /\ Truthy(DictGet(e, "guid")) /\ Truthy(DictGet(e, "refreshRate"))

\* No transform_widgets call is followed step by step: the batch run takes
\* each pass over the tree as one step
NoWalk ==
    [dashboard |-> JNull, fn |-> "none", refresh_rate |-> 0, at |-> "returned",
     i |-> 0, j |-> 0, raised |-> NoError, invoked |-> <<>>, before |-> JNull,
     pass |-> 0]

Init ==
    /\ config \in Configs
    /\ backup_dir \in BackupDirs
    /\ pc = "start"
    /\ idx = 1
    /\ dashboard = JNull
    /\ results = <<>>
    /\ report = <<>>
    /\ raised = NoError
    /\ calls = <<>>
    /\ query = NoQuery
    /\ walk = NoWalk

\* process_dashboard_update without its backup step: the fixup is followed
\* by the refresh-rate pass directly
NextStatement_without_backup(at) ==
    CASE at = "get_dashboard" -> "fixup_linked_entities"
      [] at = "fixup_linked_entities" -> "update_refresh_rates"
      [] at = "backup_dashboard" -> "update_refresh_rates"
      [] at = "update_refresh_rates" -> "update_dashboard"
      [] at = "update_dashboard" -> "return"

\* The statement process_dashboard_update runs after the one at `at` returned
NextStatement(at) ==
    CASE at = "get_dashboard" -> "fixup_linked_entities"
      [] at = "fixup_linked_entities" -> "backup_dashboard"
      [] at = "backup_dashboard" -> "update_refresh_rates"
      [] at = "update_refresh_rates" -> "update_dashboard"
      [] at = "update_dashboard" -> "return"

\* process_dashboard_update swallowing a DashboardValidationError of a pass
\* and going on to the next statement
Continue_past_validation(at, err) ==
    IF err \in {NoError, DashboardValidationError}
    THEN NextStatement(at) ELSE "raise"

\* process_dashboard_update fetching again after a fetch that failed with
\* GraphQLApiError
Continue_retry_fetch(at, err) ==
    IF err = NoError THEN NextStatement(at)
    ELSE IF at = "get_dashboard" /\ err = "GraphQLApiError" THEN "get_dashboard"
    ELSE "raise"

\* Where control goes when the statement at `at` ended with err: on to the
\* next statement, or out of process_dashboard_update
Continue(at, err) == IF err = NoError THEN NextStatement(at) ELSE "raise"

\* The try statement without its `except DashboardValidationError` clause
Caught_without_validation == { DashboardNotFoundError, "GraphQLApiError" }

\* The except clauses of the loop's try statement
Caught == { DashboardNotFoundError, DashboardValidationError, "GraphQLApiError" }

StatusOf(err) ==
    CASE err = NoError -> "OK"
      [] err = DashboardNotFoundError -> "NOT FOUND"
      [] err = DashboardValidationError -> "INVALID"
      [] err = "GraphQLApiError" -> "API ERROR"

\* results[guid] = status
SetResult(res, guid, status) ==
    [g \in (DOMAIN res) \cup {guid} |-> IF g = guid THEN status ELSE res[g]]

\* The statement at `at` ended with err, leaving the tree `tree`: go on with
\* process_dashboard_update, or leave it and run the rest of the try statement
Step(at, err, tree) ==
    LET to == Continue(at, err) IN
    IF to \notin {"return", "raise"}
    THEN /\ pc' = to
         /\ dashboard' = tree
         /\ UNCHANGED <<idx, results, raised>>
    ELSE /\ raised' = err
         /\ dashboard' = JNull
         /\ IF err = NoError \/ err \in Caught
            THEN /\ results' = SetResult(results, EntryGuid.v, StatusOf(err))
                 /\ idx' = idx + 1
                 /\ pc' = "loop"
            ELSE /\ pc' = "fatal"
                 /\ UNCHANGED <<idx, results>>

\* The checks on config['dashboards'] before the loop
Start ==
    /\ pc = "start"
    /\ pc' = IF HasKey(config, "dashboards") /\ IsList(config.v["dashboards"])
             THEN "loop" ELSE "done"
    /\ UNCHANGED <<walk, query, config, backup_dir, idx, dashboard, results, report, raised, calls>>

\* The loop written with an index of its own that the two `continue`
\* leave as it is: a skipped entry is looked at again and again
LoopNext_continue_without_advance ==
    /\ pc = "loop"
    /\ idx <= Len(config.v["dashboards"].v)
    /\ IF ValidEntry(Entry)
       THEN /\ pc' = "get_dashboard"
            /\ calls' = <<>>
            /\ raised' = NoError
            /\ UNCHANGED idx
       ELSE UNCHANGED <<idx, pc, calls, raised>>
    /\ UNCHANGED <<walk, query, config, backup_dir, dashboard, results, report>>

\* The for loop takes its next entry: skips it, or enters the try statement
LoopNext ==
    /\ pc = "loop"
    /\ idx <= Len(config.v["dashboards"].v)
    /\ IF ValidEntry(Entry)
       THEN /\ pc' = "get_dashboard"
            /\ calls' = <<>>
            /\ raised' = NoError
            /\ UNCHANGED idx
       ELSE /\ idx' = idx + 1
            /\ UNCHANGED <<pc, calls, raised>>
    /\ UNCHANGED <<walk, query, config, backup_dir, dashboard, results, report>>

\* The loop is over: the status table is logged
Report ==
    /\ pc = "loop"
    /\ idx > Len(config.v["dashboards"].v)
    /\ report' = results
    /\ pc' = "done"
    /\ UNCHANGED <<walk, query, config, backup_dir, idx, dashboard, results, raised, calls>>

GetDashboard(resp) ==
    /\ pc = "get_dashboard"
    /\ LET res == get_dashboard(resp) IN
       /\ calls' = Append(calls, Call("get_dashboard", EntryGuid.v, JNull, resp))
       /\ Step("get_dashboard", res.err, res.value)
    /\ UNCHANGED <<walk, query, config, backup_dir, report>>

FixupLinkedEntities ==
    /\ pc = "fixup_linked_entities"
    /\ LET res == fixup_linked_entities(dashboard) IN
       Step("fixup_linked_entities", res.err, res.value)
    /\ UNCHANGED <<walk, query, config, backup_dir, report, calls>>

\* `if backup_dir: backup_dashboard(...)`; the write succeeds or raises OSError
BackupDashboard(outcome) ==
    /\ pc = "backup_dashboard"
    /\ IF Truthy(backup_dir)
       THEN /\ calls' = Append(calls, Call("backup_dashboard", EntryGuid.v,
                                           dashboard, FileAnswer(outcome)))
            /\ Step("backup_dashboard", outcome, dashboard)
       ELSE /\ outcome = NoError
            /\ calls' = calls
            /\ Step("backup_dashboard", NoError, dashboard)
    /\ UNCHANGED <<walk, query, config, backup_dir, report>>

UpdateRefreshRates ==
    /\ pc = "update_refresh_rates"
    /\ LET res == update_refresh_rates(dashboard, EntryRefreshRate.v) IN
       Step("update_refresh_rates", res.err, res.value)
    /\ UNCHANGED <<walk, query, config, backup_dir, report, calls>>

UpdateDashboard(resp) ==
    /\ pc = "update_dashboard"
    /\ LET res == update_dashboard(resp) IN
       /\ calls' = Append(calls, Call("update_dashboard", EntryGuid.v, dashboard, resp))
       /\ Step("update_dashboard", res.err, dashboard)
    /\ UNCHANGED <<walk, query, config, backup_dir, report>>

Next ==
    \/ Start
    \/ LoopNext
    \/ Report
    \/ \E resp \in FetchAnswers : GetDashboard(resp)
    \/ FixupLinkedEntities
    \/ \E outcome \in {NoError, "OSError"} : BackupDashboard(outcome)
    \/ UpdateRefreshRates
    \/ \E resp \in UpdateAnswers : UpdateDashboard(resp)

Spec == Init /\ [][Next]_vars

\* ------------------------------------------------------------------------
\* Vocabulary of the properties, read off the trees and the answers directly
\* ------------------------------------------------------------------------

\* The pages of a dashboard and the widgets of a page, as sequences
PagesOf(d) ==
    IF IsDict(d) /\ IsList(DictGet(d, "pages")) THEN DictGet(d, "pages").v ELSE <<>>
WidgetsOfPage(page) ==
    IF IsDict(page) /\ IsList(DictGet(page, "widgets"))
    THEN DictGet(page, "widgets").v ELSE <<>>

\* The positions <<page, widget>> of the widgets of a dashboard
Positions(d) ==
    UNION { { <<i, j>> : j \in 1..Len(WidgetsOfPage(PagesOf(d)[i])) } :
            i \in 1..Len(PagesOf(d)) }
WidgetAt(d, pos) == WidgetsOfPage(PagesOf(d)[pos[1]])[pos[2]]

\* widget.rawConfiguration.refreshRate.frequency is present and equals rate
HasFrequency(w, rate) ==
    /\ IsDict(w) /\ HasKey(w, "rawConfiguration")
    /\ IsDict(w.v["rawConfiguration"])
    /\ HasKey(w.v["rawConfiguration"], "refreshRate")
    /\ IsDict(w.v["rawConfiguration"].v["refreshRate"])
    /\ HasKey(w.v["rawConfiguration"].v["refreshRate"], "frequency")
    /\ w.v["rawConfiguration"].v["refreshRate"].v["frequency"] = rate

\* The server answered with status 200 and a body holding data and no errors
AnsweredData(ans) ==
    /\ ans.raises = "none" /\ ans.status = 200 /\ ans.read = "ok"
    /\ IsDict(ans.body) /\ HasKey(ans.body, "data") /\ ~HasKey(ans.body, "errors")

\* data.actor of a fetch answer is a mapping that holds the key entity
EntityPresent(ans) ==
    /\ AnsweredData(ans)
    /\ IsDict(ans.body.v["data"]) /\ HasKey(ans.body.v["data"], "actor")
    /\ IsDict(ans.body.v["data"].v["actor"])
    /\ HasKey(ans.body.v["data"].v["actor"], "entity")
EntityOf(ans) == ans.body.v["data"].v["actor"].v["entity"]

\* The fetch answer carries a dashboard definition
FetchSucceeded(ans) == EntityPresent(ans) /\ IsDict(EntityOf(ans))
\* The server says the dashboard does not exist
EntityNull(ans) == EntityPresent(ans) /\ EntityOf(ans) = JNull
\* actor.entity is missing or is neither null nor a mapping
EntityMalformed(ans) ==
    /\ AnsweredData(ans)
    /\ ~FetchSucceeded(ans)
    /\ ~EntityNull(ans)

\* The update answer carries a non-empty dashboardUpdate.errors list
UpdateRejected(ans) ==
    /\ AnsweredData(ans)
    /\ IsDict(ans.body.v["data"]) /\ HasKey(ans.body.v["data"], "dashboardUpdate")
    /\ IsDict(ans.body.v["data"].v["dashboardUpdate"])
    /\ HasKey(ans.body.v["data"].v["dashboardUpdate"], "errors")
    /\ IsList(ans.body.v["data"].v["dashboardUpdate"].v["errors"])
    /\ Len(ans.body.v["data"].v["dashboardUpdate"].v["errors"].v) > 0

\* The server answered: an HTTP error status, or a body that holds errors
\* or data
GraphQLAnswer(ans) ==
    \/ ans.raises = "HTTPError"
    \/ /\ ans.raises = "none"
       /\ \/ ans.status # 200
          \/ /\ ans.read = "ok" /\ IsDict(ans.body)
             /\ (HasKey(ans.body, "errors") \/ HasKey(ans.body, "data"))

\* The HTTP call itself failed: no response, or a status other than 200
HttpFailed(ans) == ans.raises # "none" \/ ans.status # 200

\* The structural assumptions of the walk and of the two transformers
WellFormedTree(d) ==
    LET pages == DictGet(d, "pages") IN
    \/ ~Truthy(pages)
    \/ /\ IsList(pages)
       /\ \A i \in 1..Len(pages.v) :
            /\ IsDict(pages.v[i])
            /\ LET widgets == DictGet(pages.v[i], "widgets") IN
               \/ ~Truthy(widgets)
               \/ /\ IsList(widgets)
                  /\ \A j \in 1..Len(widgets.v) : IsDict(widgets.v[j])
WellFormedLinkedEntities(w) ==
    LET l == DictGet(w, "linkedEntities") IN
    \/ l = JNull
    \/ IsList(l) /\ \A k \in 1..Len(l.v) : IsDict(l.v[k])
WellFormedRawConfiguration(w) ==
    LET raw == DictGet(w, "rawConfiguration") IN
    \/ raw = JNull
    \/ /\ IsDict(raw)
       /\ HasKey(raw, "refreshRate") => IsDict(raw.v["refreshRate"])

CallsOf(op) == { i \in 1..Len(calls) : calls[i].op = op }
\* The dashboard as the fetch of the entry being processed returned it
Fetched == EntityOf(calls[1].ans)
Entries == IF HasKey(config, "dashboards") /\ IsList(config.v["dashboards"])
           THEN config.v["dashboards"].v ELSE <<>>

\* ------------------------------------------------------------------------
\* Properties
\* ------------------------------------------------------------------------

\* C1: a failure confined to one dashboard never aborts the batch: whenever
\* the server answered every call of an entry with an HTTP error status or
\* a GraphQL body (errors or data, whatever the data holds) and no backup
\* write failed, no exception leaves process_dashboard_updates, and
\* at the end of the run every valid entry's GUID has a status in the report.
C1_FailureNeverAbortsBatch ==
    /\ pc = "fatal" =>
         \/ \E i \in CallsOf("get_dashboard") \cup CallsOf("update_dashboard") :
               ~GraphQLAnswer(calls[i].ans)
         \/ \E j \in CallsOf("backup_dashboard") : calls[j].ans.raises # NoError
    /\ (pc = "done" /\ Entries # <<>>) =>
         \A i \in 1..Len(Entries) :
            ValidEntry(Entries[i]) => DictGet(Entries[i], "guid").v \in DOMAIN report

\* C2: once update_refresh_rates has returned without error, every widget of
\* every page has rawConfiguration.refreshRate.frequency equal to the
\* configured rate, whether or not rawConfiguration or refreshRate existed.
C2_EveryWidgetHasFrequency ==
    pc = "update_dashboard" =>
        \A pos \in Positions(dashboard) :
            HasFrequency(WidgetAt(dashboard, pos), EntryRefreshRate)

\* C3 as claimed: once fixup_linked_entities has returned without error, no
\* widget holds linkedEntities and every widget that held the key before,
\* whatever its value (null included), holds linkedEntityGuids.
C3_EveryLinkedEntitiesRenamed ==
    pc = "backup_dashboard" =>
        \A pos \in Positions(dashboard) :
            /\ ~HasKey(WidgetAt(dashboard, pos), "linkedEntities")
            /\ HasKey(WidgetAt(Fetched, pos), "linkedEntities") =>
                   HasKey(WidgetAt(dashboard, pos), "linkedEntityGuids")

\* C3 as amended: once fixup_linked_entities has returned without error, no
\* widget holds linkedEntities, and every widget whose linkedEntities was
\* not null before the call holds linkedEntityGuids, a sequence, which is
\* empty when no entry had a guid.
C3_NonNullLinkedEntitiesRenamed ==
    pc = "backup_dashboard" =>
        \A pos \in Positions(dashboard) :
            LET before == WidgetAt(Fetched, pos)
                after == WidgetAt(dashboard, pos)
            IN
            /\ ~HasKey(after, "linkedEntities")
            /\ (HasKey(before, "linkedEntities") /\ before.v["linkedEntities"] # JNull) =>
                   /\ HasKey(after, "linkedEntityGuids")
                   /\ IsList(after.v["linkedEntityGuids"])
                   /\ (\A k \in 1..Len(before.v["linkedEntities"].v) :
                          ~HasKey(before.v["linkedEntities"].v[k], "guid")) =>
                        after.v["linkedEntityGuids"] = JList(<<>>)

\* C3 witness: the fixup returned on a dashboard with a widget whose
\* linkedEntities was an empty list, and the widget now holds an empty
\* linkedEntityGuids.
C3_Witness ==
    /\ pc = "backup_dashboard"
    /\ \E pos \in Positions(dashboard) :
          /\ HasKey(WidgetAt(Fetched, pos), "linkedEntities")
          /\ WidgetAt(Fetched, pos).v["linkedEntities"] = JList(<<>>)
          /\ HasKey(WidgetAt(dashboard, pos), "linkedEntityGuids")
          /\ WidgetAt(dashboard, pos).v["linkedEntityGuids"] = JList(<<>>)

\* C4: an update whose answer carries a non-empty dashboardUpdate.errors
\* list fails with GraphQLApiError, and the GUID is recorded as API ERROR.
C4_RejectedUpdateIsApiError ==
    \A i \in CallsOf("update_dashboard") :
        UpdateRejected(calls[i].ans) =>
            /\ raised = "GraphQLApiError"
            /\ calls[i].guid \in DOMAIN results
            /\ results[calls[i].guid] = "API ERROR"

\* C5: a fetch whose answer has actor.entity missing or not a mapping fails
\* with GraphQLApiError and with no other kind of error.
C5_MalformedEntityIsApiError ==
    \A i \in CallsOf("get_dashboard") :
        EntityMalformed(calls[i].ans) => raised = "GraphQLApiError"

\* C6: when the server answers a fetch with a null actor.entity, the entry
\* fails with DashboardNotFoundError and the GUID is recorded as NOT FOUND.
C6_AbsentDashboardIsNotFound ==
    \A i \in CallsOf("get_dashboard") :
        EntityNull(calls[i].ans) =>
            /\ raised = DashboardNotFoundError
            /\ calls[i].guid \in DOMAIN results
            /\ results[calls[i].guid] = "NOT FOUND"

\* C7: every failed HTTP call (error status, HTTP error, refused connection,
\* timeout) surfaces as GraphQLApiError, so the GUID is recorded as API ERROR.
C7_FailedCallIsApiError ==
    \A i \in CallsOf("get_dashboard") \cup CallsOf("update_dashboard") :
        HttpFailed(calls[i].ans) =>
            /\ raised = "GraphQLApiError"
            /\ calls[i].guid \in DOMAIN results
            /\ results[calls[i].guid] = "API ERROR"

\* C8: the update mutation of a GUID is sent only after the fetch of that
\* GUID succeeded and the tree passed the validation of both passes: the
\* walk's, the linked-entities transformer's and the refresh-rate
\* transformer's on every widget.
C8_UpdateOnlyAfterValidation ==
    \A i \in CallsOf("update_dashboard") :
        /\ i > 1
        /\ calls[1].op = "get_dashboard"
        /\ calls[1].guid = calls[i].guid
        /\ FetchSucceeded(calls[1].ans)
        /\ WellFormedTree(Fetched)
        /\ \A pos \in Positions(Fetched) :
              /\ WellFormedLinkedEntities(WidgetAt(Fetched, pos))
              /\ WellFormedRawConfiguration(WidgetAt(Fetched, pos))

\* C8 witness: an update was sent for a dashboard that has widgets, and the
\* GUID was recorded as OK.
C8_Witness ==
    \E i \in CallsOf("update_dashboard") :
        /\ FetchSucceeded(calls[1].ans) /\ Positions(Fetched) # {}
        /\ calls[i].guid \in DOMAIN results /\ results[calls[i].guid] = "OK"

\* C9: with a backup directory configured, every update call is preceded,
\* in the same processing of the entry, by a backup write of the same GUID
\* that succeeded, and a failed backup write is followed by no update.
C9_BackupBeforeUpdate ==
    Truthy(backup_dir) =>
        /\ \A i \in CallsOf("update_dashboard") :
              \E j \in CallsOf("backup_dashboard") :
                 /\ j < i
                 /\ calls[j].guid = calls[i].guid
                 /\ calls[j].ans.raises = NoError
        /\ \A j \in CallsOf("backup_dashboard") :
              calls[j].ans.raises # NoError => CallsOf("update_dashboard") = {}

\* C9 witness: with a backup directory configured, an update was sent and
\* the GUID was recorded as OK.
C9_Witness ==
    /\ Truthy(backup_dir)
    /\ \E i \in CallsOf("update_dashboard") :
          calls[i].guid \in DOMAIN results /\ results[calls[i].guid] = "OK"

\* C10: the snapshot handed to the backup sink equals the dashboard
\* definition as the fetch returned it, before any transformation.
C10_BackupIsFetchedDashboard ==
    \A j \in CallsOf("backup_dashboard") : calls[j].arg = Fetched

\* ------------------------------------------------------------------------
\* query_graphql with a cursor path, as a state machine: one step per POST
\* ------------------------------------------------------------------------

\* The most pages a server holds
MaxPages == 3

\* The cursor a server hands out for its page k
CursorNames == <<"c1", "c2", "c3", "c4", "c5">>
CursorOf(k) == JStr(CursorNames[k])

\* next_cursor_path 'a.b', and the call without a cursor path
CursorPaths == { NoCursorPath, <<"a", "b">> }

PageAnswer(data) == HttpOk(JDict([data |-> data]))

\* Page k of n: its payload carries the cursor of page k + 1 at a.b, and
\* null there on the last page
GoodPage(k, n) ==
    PageAnswer(JDict([a |-> JDict([b |-> IF k < n THEN CursorOf(k + 1) ELSE JNull]),
                      n |-> JNum(k)]))

\* Answers that are not a page with a cursor or null at a.b
BrokenPages ==
    { PageAnswer(EmptyDict),
      PageAnswer(JDict([a |-> EmptyDict])),
      PageAnswer(JDict([a |-> JNum(1)])),
      PageAnswer(JDict([a |-> JDict([b |-> JNum(1)])])),
      PageAnswer(JDict([a |-> JDict([b |-> JBool(FALSE)])])),
      HttpOk(JDict([errors |-> JList(<<JDict([message |-> JStr("x")])>>)])),
      HttpOk(JDict([errors |-> JList(<<JDict([message |-> JStr("x")]),
                                       JDict([message |-> JStr("y")])>>),
                    data |-> JDict([a |-> JDict([b |-> JNull])])])),
      HttpAnswer("HTTPError", 500, "ok", JNull),
      HttpAnswer("URLError", 0, "ok", JNull),
      PageAnswer(JDict([a |-> JDict([b |-> JStr("")])])) }

Chain(n) == [k \in 1..n |-> GoodPage(k, n)]

\* A server is the sequence of its pages: a chain of n pages, or such a
\* chain with one page replaced by a broken answer
Servers ==
    UNION { { Chain(n) } \cup { [Chain(n) EXCEPT ![k] = b] :
                                    k \in 1..n, b \in BrokenPages } :
            n \in 1..MaxPages }

\* The server's answer to a cursor it did not hand out
BadCursorAnswer ==
    HttpOk(JDict([errors |-> JList(<<JDict([message |-> JStr("bad cursor")])>>)]))

\* The answer of the server to a request: its first page when the request
\* carries no cursor or a null one, page k for the cursor of page k
ServerAnswer(server, variables) ==
    LET cursor == DictGet(variables, "cursor") IN
    IF cursor = JNull THEN server[1]
    ELSE IF \E k \in 1..Len(server) : cursor = CursorOf(k)
    THEN server[CHOOSE k \in 1..Len(server) : cursor = CursorOf(k)]
    ELSE BadCursorAnswer

InitQuery ==
    /\ query \in { [NoQuery EXCEPT !.next_cursor_path = p, !.server = s,
                                   !.done = FALSE] :
                   p \in CursorPaths, s \in Servers }
    /\ config = EmptyDict
    /\ backup_dir = JNull
    /\ pc = "query_graphql"
    /\ idx = 1
    /\ dashboard = JNull
    /\ results = <<>>
    /\ report = <<>>
    /\ raised = NoError
    /\ calls = <<>>
    /\ walk = NoWalk

\* One iteration of `while not done`
PostGraphQL ==
    /\ pc = "query_graphql"
    /\ ~query.done
    /\ query.raised = NoError
    /\ LET variables == request_variables(query.next_cursor_path, query.next_cursor)
           resp == ServerAnswer(query.server, variables)
           it == query_graphql_iteration(query.next_cursor_path, query.next_cursor,
                                         query.results, resp)
       IN query' = [query EXCEPT
                        !.requests = Append(@, [variables |-> variables, ans |-> resp]),
                        !.done = it.done,
                        !.next_cursor = it.next_cursor,
                        !.results = it.results,
                        !.raised = it.err]
    /\ UNCHANGED <<walk, config, backup_dir, pc, idx, dashboard, results, report,
                   raised, calls>>

NextQuery == PostGraphQL

SpecQuery == InitQuery /\ [][NextQuery]_vars

\* The path leads through mappings to a key that is there
RECURSIVE Resolves(_, _)
Resolves(d, path) ==
    IF path = <<>> THEN TRUE
    ELSE /\ IsDict(d)
         /\ HasKey(d, Head(path))
         /\ Resolves(d.v[Head(path)], Tail(path))

\* The value a resolving path leads to
RECURSIVE ValueAt(_, _)
ValueAt(d, path) ==
    IF path = <<>> THEN d ELSE ValueAt(d.v[Head(path)], Tail(path))

\* The requests posted so far, and the payload of the answer to request k
Requests == query.requests
PayloadOf(k) == Requests[k].ans.body.v["data"]

\* The answer to request k is a payload in which the cursor path resolves
PageReceived(k) ==
    /\ AnsweredData(Requests[k].ans)
    /\ Resolves(PayloadOf(k), query.next_cursor_path)
ResponseCursor(k) == ValueAt(PayloadOf(k), query.next_cursor_path)

\* The answer to request k has status 200 and a top-level errors array of
\* {message} entries
ErrorsAnswered(k) ==
    LET ans == Requests[k].ans IN
    /\ ans.raises = "none" /\ ans.status = 200 /\ ans.read = "ok"
    /\ IsDict(ans.body) /\ HasKey(ans.body, "errors")
    /\ IsList(ans.body.v["errors"])
    /\ \A i \in 1..Len(ans.body.v["errors"].v) :
          /\ IsDict(ans.body.v["errors"].v[i])
          /\ DictGet(ans.body.v["errors"].v[i], "message").t = "str"

\* ------------------------------------------------------------------------
\* The transformers and the walk
\* ------------------------------------------------------------------------

\* The mappings d1 and d2 hold the same keys with the same values, the key k
\* left aside
AgreeOutside(d1, d2, k) ==
    /\ IsDict(d1) /\ IsDict(d2)
    /\ DOMAIN d1.v \ {k} = DOMAIN d2.v \ {k}
    /\ \A key \in DOMAIN d1.v \ {k} : d2.v[key] = d1.v[key]

\* The widget after differs from the widget before at most in
\* rawConfiguration.refreshRate.frequency
OnlyFrequencyDiffers(before, after) ==
    LET raw == DictGet(before, "rawConfiguration")
        raw2 == DictGet(after, "rawConfiguration")
    IN
    /\ AgreeOutside(before, after, "rawConfiguration")
    /\ IsDict(raw) =>
          /\ AgreeOutside(raw, raw2, "refreshRate")
          /\ IsDict(DictGet(raw, "refreshRate")) =>
                AgreeOutside(DictGet(raw, "refreshRate"),
                             DictGet(raw2, "refreshRate"), "frequency")

\* C11: the refresh rate pass changes nothing but
\* rawConfiguration.refreshRate.frequency: when it succeeds, the dashboard
\* keeps its keys, pages and widget positions, and every widget keeps every
\* other key of the widget, of its rawConfiguration and of a refreshRate
\* mapping it already had, with the same value as before.
C11_OnlyFrequencyChanges ==
    [][(pc = "update_refresh_rates" /\ pc' = "update_dashboard") =>
          /\ AgreeOutside(dashboard, dashboard', "pages")
          /\ Positions(dashboard') = Positions(dashboard)
          /\ \A i \in 1..Len(PagesOf(dashboard)) :
                AgreeOutside(PagesOf(dashboard)[i], PagesOf(dashboard')[i], "widgets")
          /\ \A pos \in Positions(dashboard) :
                OnlyFrequencyDiffers(WidgetAt(dashboard, pos),
                                     WidgetAt(dashboard', pos))]_vars

\* The pass has set the frequency 2 in a refreshRate mapping that held the
\* frequency 1 and a unit
C11_Witness ==
    /\ pc = "update_dashboard"
    /\ EntryRefreshRate = JNum(2)
    /\ \E pos \in Positions(dashboard) :
          /\ HasFrequency(WidgetAt(dashboard, pos), JNum(2))
          /\ WidgetAt(dashboard, pos).v["rawConfiguration"].v["refreshRate"]
                = JDict([frequency |-> JNum(2), unit |-> JStr("ms")])

\* ------------------------------------------------------------------------
\* The paginated query
\* ------------------------------------------------------------------------

\* C12: an answer with status 200 whose body has a top-level errors array
\* (of {message} entries, with or without data next to it) is an error: the call it answers is the last one of the query, the
\* query is left with GraphQLApiError and never done, and results holds the
\* payloads of the earlier answers only, none for that call.
C12_ErrorsArrayIsAnError ==
    \A k \in 1..Len(Requests) :
        ErrorsAnswered(k) =>
            /\ k = Len(Requests)
            /\ query.raised = "GraphQLApiError"
            /\ ~query.done
            /\ Len(query.results) = k - 1
            /\ \A j \in 1..(k - 1) : query.results[j] = PayloadOf(j)

\* The second answer carried errors next to data, and the query raised
\* with the payload of the first page only
C12_Witness ==
    /\ Len(Requests) = 2
    /\ ErrorsAnswered(2)
    /\ HasKey(Requests[2].ans.body, "data")
    /\ query.raised = "GraphQLApiError"
    /\ Len(query.results) = 1

\* C13: with a cursor path, the first request carries a null cursor and
\* each later one the cursor found in the response before it, which was a
\* page with a cursor that is not null; no request is sent twice; a page
\* whose cursor is null ends the loop without an exception, so no request
\* follows it; and when the loop has ended, results is exactly the payloads
\* received, in request order.
C13_PaginationFollowsCursors ==
    query.next_cursor_path # NoCursorPath =>
        LET n == Len(Requests) IN
        /\ n >= 1 => Requests[1].variables = JDict([cursor |-> JNull])
        /\ \A k \in 2..n :
              /\ PageReceived(k - 1)
              /\ ResponseCursor(k - 1) # JNull
              /\ Requests[k].variables = JDict([cursor |-> ResponseCursor(k - 1)])
              /\ \A j \in 1..(k - 1) : Requests[j].variables # Requests[k].variables
        /\ (n >= 1 /\ PageReceived(n) /\ ResponseCursor(n) = JNull) =>
              (query.done /\ query.raised = NoError)
        /\ query.done =>
              query.results = [k \in 1..n |-> PayloadOf(k)]

\* A server of three pages has been read to its end: three requests, three
\* payloads
C13_Witness ==
    /\ query.next_cursor_path # NoCursorPath
    /\ query.server = Chain(3)
    /\ query.done
    /\ query.raised = NoError
    /\ Len(Requests) = 3
    /\ query.results = <<PayloadOf(1), PayloadOf(2), PayloadOf(3)>>
    /\ PayloadOf(1) # PayloadOf(2) /\ PayloadOf(2) # PayloadOf(3)

\* C14: with a cursor path, a payload in which the path cannot be resolved
\* (a key is missing, or an intermediate value is not a mapping) makes the
\* query fail with GraphQLApiError; it never ends the pagination the way a
\* null cursor does.
C14_UnresolvableCursorIsApiError ==
    query.next_cursor_path # NoCursorPath =>
        \A k \in 1..Len(Requests) :
            (AnsweredData(Requests[k].ans) /\ ~PageReceived(k)) =>
                /\ query.raised = "GraphQLApiError"
                /\ ~query.done

\* C15: get_nested has three outcomes.  When the path resolves in the
\* payload, the cursor found is the value there, which may be null; when a
\* key is missing at any segment or an intermediate value is not a mapping,
\* the result is a not-found marker that is neither null nor any other value
\* a payload can hold.
C15_NotFoundIsDistinguished ==
    LET n == Len(Requests) IN
    (query.next_cursor_path # NoCursorPath /\ n >= 1
        /\ AnsweredData(Requests[n].ans)) =>
        IF PageReceived(n)
        THEN query.next_cursor = ResponseCursor(n)
        ELSE query.next_cursor.t
                \notin {"null", "bool", "num", "str", "list", "dict"}

\* C16: the walk over a dashboard whose pages key is absent, or holds an
\* empty sequence, changes nothing and raises nothing; the walk over a
\* dashboard whose pages key holds a value that is not a sequence (a
\* mapping, a string, a number or a boolean, empty or not) raises
\* DashboardValidationError, which the batch loop records as INVALID.
C16_PagesAbsentEmptyOrInvalid ==
    [][pc = "fixup_linked_entities" =>
          LET pages == DictGet(dashboard, "pages") IN
          /\ (~HasKey(dashboard, "pages") \/ pages = JList(<<>>)) =>
                (pc' = "backup_dashboard" /\ dashboard' = dashboard)
          /\ (HasKey(dashboard, "pages")
                /\ pages.t \in {"dict", "str", "num", "bool"}) =>
                /\ raised' = DashboardValidationError
                /\ pc' = "loop"
                /\ results'[EntryGuid.v] = "INVALID"]_vars

\* The guid values of the entries of l that hold a guid, in the order of l
RECURSIVE GuidsInOrder(_)
GuidsInOrder(l) ==
    IF l = <<>> THEN <<>>
    ELSE (IF IsDict(Head(l)) /\ HasKey(Head(l), "guid")
          THEN <<Head(l).v["guid"]>> ELSE <<>>) \o GuidsInOrder(Tail(l))

\* C17: the fixup does not raise on a tree whose linkedEntities are
\* sequences of mappings, whether or not the mappings hold a guid; and when
\* it returns, every widget whose linkedEntities was a sequence holds as
\* linkedEntityGuids exactly the guid values of the entries that had one, in
\* their original order, and no longer holds linkedEntities.
C17_GuidsKeptInOrder ==
    [][pc = "fixup_linked_entities" =>
          /\ (WellFormedTree(dashboard)
                /\ \A pos \in Positions(dashboard) :
                      WellFormedLinkedEntities(WidgetAt(dashboard, pos))) =>
                pc' = "backup_dashboard"
          /\ pc' = "backup_dashboard" =>
                \A pos \in Positions(dashboard) :
                    LET before == WidgetAt(dashboard, pos)
                        after == WidgetAt(dashboard', pos)
                    IN IsList(DictGet(before, "linkedEntities")) =>
                          /\ HasKey(after, "linkedEntityGuids")
                          /\ after.v["linkedEntityGuids"] =
                                JList(GuidsInOrder(before.v["linkedEntities"].v))
                          /\ ~HasKey(after, "linkedEntities")]_vars

\* The fixup returned on a widget whose three linked entities hold the
\* guids A and B around an entry without guid: linkedEntityGuids is [A, B]
C17_Witness ==
    /\ pc = "backup_dashboard"
    /\ \E pos \in Positions(dashboard) :
          /\ IsList(DictGet(WidgetAt(Fetched, pos), "linkedEntities"))
          /\ Len(WidgetAt(Fetched, pos).v["linkedEntities"].v) = 3
          /\ ~HasKey(WidgetAt(Fetched, pos).v["linkedEntities"].v[2], "guid")
          /\ ~HasKey(WidgetAt(dashboard, pos), "linkedEntities")
          /\ WidgetAt(dashboard, pos).v["linkedEntityGuids"]
                = JList(<<JStr("A"), JStr("B")>>)

\* ------------------------------------------------------------------------
\* The batch loop
\* ------------------------------------------------------------------------

\* The run is inside process_dashboard_update
Processing ==
    pc \in {"get_dashboard", "fixup_linked_entities", "backup_dashboard",
            "update_refresh_rates", "update_dashboard"}

\* C18: when the processing of an entry ends with an exception, the loop
\* catches DashboardNotFoundError, DashboardValidationError and
\* GraphQLApiError, records NOT FOUND, INVALID and API ERROR for the GUID and
\* goes on to the next entry; any other exception leaves the loop with the
\* result map as it was, and after that nothing happens any more: no later
\* entry is processed and no status table is emitted.
C18_CatchesExactlyThree ==
    [][/\ pc # "fatal"
       /\ (Processing /\ raised' # NoError) =>
             IF raised' \in {"DashboardNotFoundError", "DashboardValidationError",
                             "GraphQLApiError"}
             THEN /\ pc' = "loop"
                  /\ idx' = idx + 1
                  /\ results' =
                        SetResult(results, EntryGuid.v,
                                  CASE raised' = "DashboardNotFoundError" -> "NOT FOUND"
                                    [] raised' = "DashboardValidationError" -> "INVALID"
                                    [] raised' = "GraphQLApiError" -> "API ERROR")
             ELSE /\ pc' = "fatal"
                  /\ UNCHANGED <<idx, results, report>>
                  /\ report = <<>>]_vars

\* The first of two valid entries ended with an exception that is not
\* caught: the run is over with the second entry unprocessed, an empty
\* result map and no status table
C18_Witness ==
    /\ pc = "fatal"
    /\ raised \notin {NoError, "DashboardNotFoundError",
                      "DashboardValidationError", "GraphQLApiError"}
    /\ idx = 1
    /\ Len(Entries) = 2
    /\ ValidEntry(Entries[2])
    /\ results = <<>>
    /\ report = <<>>

\* The entry is not a mapping, or its guid or its refreshRate is missing or
\* falsy
SkippedEntry(e) ==
    \/ ~IsDict(e)
    \/ ~HasKey(e, "guid") \/ ~Truthy(e.v["guid"])
    \/ ~HasKey(e, "refreshRate") \/ ~Truthy(e.v["refreshRate"])

\* C19: at an entry that is not a mapping, or whose guid or refreshRate is
\* missing or falsy, the loop moves on to the next entry without a fetch, a
\* backup or an update call and without recording a status; and the run
\* that reaches its report has a status for every other entry, the ones
\* after a skipped entry included.
C19_InvalidEntryIsSkipped ==
    [][/\ (pc = "loop" /\ idx <= Len(Entries) /\ SkippedEntry(Entries[idx])) =>
             /\ pc' = "loop"
             /\ idx' = idx + 1
             /\ UNCHANGED <<results, calls, dashboard, raised, report>>
       /\ pc' = "done" =>
             \A i \in 1..Len(Entries) :
                 ~SkippedEntry(Entries[i]) =>
                     Entries[i].v["guid"].v \in DOMAIN report']_vars

\* The run skipped its first entry, which has a guid of its own and no
\* valid refreshRate, processed the second, and reports a status for the
\* second only
C19_Witness ==
    /\ pc = "done"
    /\ Len(Entries) = 2
    /\ IsDict(Entries[1]) /\ HasKey(Entries[1], "guid")
    /\ SkippedEntry(Entries[1])
    /\ ~SkippedEntry(Entries[2])
    /\ Entries[1].v["guid"] # Entries[2].v["guid"]
    /\ DOMAIN report = { Entries[2].v["guid"].v }
    /\ Len(calls) >= 1

\* C20: the status of a GUID is terminal: a GUID that has a status in the
\* result map keeps that status in every later step of the run, whatever
\* the list of entries is, and the report of the run shows the result map.
C20_StatusIsTerminal ==
    [][/\ \A g \in DOMAIN results :
             g \in DOMAIN results' /\ results'[g] = results[g]
       /\ pc' = "done" => report' = results']_vars

\* The calls of the kind op among the calls cs
CallsIn(cs, op) == { i \in 1..Len(cs) : cs[i].op = op }

\* C21: entries are processed in input order, one at a time and without
\* retry.  The loop index never goes back and advances by one, and only at
\* a skipped entry or in the step that records the status of the entry it
\* is at; every call that is issued is issued for the entry the loop is at;
\* and the calls of one processing hold at most one fetch and at most one
\* update.
C21_InOrderWithoutRetry ==
    [][/\ idx' \in {idx, idx + 1}
       /\ idx' = idx + 1 =>
             \/ pc = "loop" /\ SkippedEntry(Entries[idx])
             \/ /\ Processing
                /\ pc' = "loop"
                /\ EntryGuid.v \in DOMAIN results'
                /\ results'[EntryGuid.v] \in {"OK", "NOT FOUND", "INVALID", "API ERROR"}
       /\ Len(calls') > Len(calls) =>
             /\ Processing
             /\ Len(calls') = Len(calls) + 1
             /\ calls'[Len(calls')].guid = Entries[idx].v["guid"].v
       /\ Cardinality(CallsIn(calls', "get_dashboard")) <= 1
       /\ Cardinality(CallsIn(calls', "update_dashboard")) <= 1]_vars

\* The second of two entries has been fetched and updated, once each, after
\* the first had its status
C21_Witness ==
    /\ pc = "loop"
    /\ idx = 3
    /\ Len(Entries) = 2
    /\ ~SkippedEntry(Entries[1]) /\ ~SkippedEntry(Entries[2])
    /\ Entries[1].v["guid"] # Entries[2].v["guid"]
    /\ DOMAIN results = { Entries[1].v["guid"].v, Entries[2].v["guid"].v }
    /\ Cardinality(CallsIn(calls, "get_dashboard")) = 1
    /\ Cardinality(CallsIn(calls, "update_dashboard")) = 1
    /\ \A i \in 1..Len(calls) : calls[i].guid = Entries[2].v["guid"].v

\* ------------------------------------------------------------------------
\* transform_widgets as a state machine: one step per page and per widget
\* ------------------------------------------------------------------------

\* The transformers the script passes to transform_widgets, with the
\* refresh rate they are given
Transformers ==
    { <<"transform_linked_entities", 0>>,
      <<"update_refresh_rate", 1>>,
      <<"update_refresh_rate", 2>> }

\* The frame at the start of a pass over the tree d
StartWalk(d, fn, refresh_rate, pass) ==
    [dashboard |-> d, fn |-> fn, refresh_rate |-> refresh_rate, at |-> "pages",
     i |-> 0, j |-> 0, raised |-> NoError, invoked |-> <<>>, before |-> d,
     pass |-> pass]

InitWalk ==
    /\ walk \in { StartWalk(d, t[1], t[2], 1) : d \in Dashboards, t \in Transformers }
    /\ query = NoQuery
    /\ config = EmptyDict
    /\ backup_dir = JNull
    /\ pc = "transform_widgets"
    /\ idx = 1
    /\ dashboard = JNull
    /\ results = <<>>
    /\ report = <<>>
    /\ raised = NoError
    /\ calls = <<>>

\* The loop body testing isinstance(widgets, list) alone: a page without
\* widgets, or with an empty sequence of them, raises
page_outcome_raise_on_empty(page) ==
    IF ~IsDict(page) THEN "raise"
    ELSE IF ~IsList(DictGet(page, "widgets")) THEN "raise"
    ELSE IF ~Truthy(DictGet(page, "widgets")) THEN "raise"
    ELSE "widgets"

\* What the body of `for page in dashboard['pages']` does with a page
\* before it reaches the widgets: it raises, goes on to the next page
\* ("continue"), or enters the loop over the widgets
page_outcome(page) ==
    IF ~IsDict(page) THEN "raise"
    ELSE IF ~Truthy(DictGet(page, "widgets")) THEN "continue"
    ELSE IF ~IsList(DictGet(page, "widgets")) THEN "raise"
    ELSE "widgets"

\* The tree d with the widget w at page i, position j
SetWidget(d, i, j, w) ==
    LET pages == d.v["pages"]
        page == pages.v[i]
    IN DictSet(d, "pages",
           ListSet(pages, i,
               DictSet(page, "widgets", ListSet(page.v["widgets"], j, w))))

WalkUnchanged ==
    UNCHANGED <<query, config, backup_dir, pc, idx, dashboard, results, report,
                raised, calls>>

\* pages = dashboard.get('pages') and its two tests
WalkPages ==
    /\ pc = "transform_widgets"
    /\ walk.at = "pages"
    /\ LET pages == DictGet(walk.dashboard, "pages") IN
       walk' = IF ~Truthy(pages) THEN [walk EXCEPT !.at = "returned"]
               ELSE IF ~IsList(pages)
               THEN [walk EXCEPT !.at = "raised",
                                 !.raised = DashboardValidationError]
               ELSE [walk EXCEPT !.at = "page", !.i = 1]
    /\ WalkUnchanged

\* The head of the body of `for page in dashboard['pages']`
WalkPage ==
    /\ pc = "transform_widgets"
    /\ walk.at = "page"
    /\ LET pages == walk.dashboard.v["pages"].v IN
       walk' = IF walk.i > Len(pages) THEN [walk EXCEPT !.at = "returned"]
               ELSE CASE page_outcome(pages[walk.i]) = "raise" ->
                            [walk EXCEPT !.at = "raised",
                                         !.raised = DashboardValidationError]
                      [] page_outcome(pages[walk.i]) = "continue" ->
                            [walk EXCEPT !.i = @ + 1]
                      [] page_outcome(pages[walk.i]) = "widgets" ->
                            [walk EXCEPT !.at = "widget", !.j = 1]
    /\ WalkUnchanged

\* The body of `for widget in page['widgets']`
WalkWidget ==
    /\ pc = "transform_widgets"
    /\ walk.at = "widget"
    /\ LET widgets == walk.dashboard.v["pages"].v[walk.i].v["widgets"].v IN
       walk' =
          IF walk.j > Len(widgets)
          THEN [walk EXCEPT !.at = "page", !.i = @ + 1]
          ELSE IF ~IsDict(widgets[walk.j])
          THEN [walk EXCEPT !.at = "raised", !.raised = DashboardValidationError]
          ELSE LET res == transformerFn(walk.fn, widgets[walk.j], walk.refresh_rate)
                   done == [walk EXCEPT
                               !.invoked = Append(@, <<walk.i, walk.j>>),
                               !.dashboard = SetWidget(@, walk.i, walk.j, res.value)]
               IN IF res.err # NoError
                  THEN [done EXCEPT !.at = "raised", !.raised = res.err]
                  ELSE [done EXCEPT !.j = @ + 1]
    /\ WalkUnchanged

\* The same pass is run a second time over the tree the first one returned
WalkAgain ==
    /\ pc = "transform_widgets"
    /\ walk.at = "returned"
    /\ walk.pass = 1
    /\ walk' = StartWalk(walk.dashboard, walk.fn, walk.refresh_rate, 2)
    /\ WalkUnchanged

NextWalk ==
    \/ WalkPages
    \/ WalkPage
    \/ WalkWidget
    \/ WalkAgain

SpecWalk == InitWalk /\ [][NextWalk]_vars

\* C22: the refresh rate transformer is idempotent: in a second pass with
\* the same rate over the tree the first pass returned, no widget raises
\* and every widget stays equal to the result of the first application.
C22_RefreshRateIsIdempotent ==
    (walk.fn = "update_refresh_rate" /\ walk.pass = 2) =>
        /\ walk.raised = NoError
        /\ walk.dashboard = walk.before

\* The second pass with the rate 2 has returned after it was applied to a
\* widget whose refreshRate holds the frequency 2 next to a unit
C22_Witness ==
    /\ walk.fn = "update_refresh_rate"
    /\ walk.refresh_rate = 2
    /\ walk.pass = 2
    /\ walk.at = "returned"
    /\ walk.invoked = << <<1, 1>> >>
    /\ HasFrequency(WidgetAt(walk.dashboard, <<1, 1>>), JNum(2))
    /\ WidgetAt(walk.dashboard, <<1, 1>>).v["rawConfiguration"].v["refreshRate"]
          = JDict([frequency |-> JNum(2), unit |-> JStr("ms")])

\* The pass was left by an exception of the transformer, raised for the
\* widget at page walk.i, position walk.j
TransformerRaised ==
    /\ walk.at = "raised"
    /\ walk.invoked # <<>>
    /\ walk.invoked[Len(walk.invoked)] = <<walk.i, walk.j>>

\* C23: when a transformer raises DashboardValidationError for a widget,
\* that widget has exactly the keys and values it had before the pass, and
\* so has every widget after it in walk order: the later widgets of its
\* page and all later pages.
C23_NoPartialApplication ==
    TransformerRaised =>
        LET pagesBefore == PagesOf(walk.before)
            pagesAfter == PagesOf(walk.dashboard)
        IN
        /\ walk.raised = DashboardValidationError
        /\ Len(pagesAfter) = Len(pagesBefore)
        /\ Len(WidgetsOfPage(pagesAfter[walk.i])) = Len(WidgetsOfPage(pagesBefore[walk.i]))
        /\ \A j \in walk.j..Len(WidgetsOfPage(pagesBefore[walk.i])) :
              WidgetAt(walk.dashboard, <<walk.i, j>>) = WidgetAt(walk.before, <<walk.i, j>>)
        /\ \A i \in (walk.i + 1)..Len(pagesBefore) : pagesAfter[i] = pagesBefore[i]

\* The fixup raised for the first widget of a page, whose linkedEntities
\* is a string; that widget is as it was, and so is the widget after it,
\* whose linkedEntities the pass would have renamed
C23_Witness ==
    /\ TransformerRaised
    /\ walk.fn = "transform_linked_entities"
    /\ walk.invoked = << <<1, 1>> >>
    /\ Len(WidgetsOfPage(PagesOf(walk.before)[1])) = 2
    /\ WidgetAt(walk.before, <<1, 1>>) = WidgetBadLinkedEntities
    /\ WidgetAt(walk.dashboard, <<1, 1>>) = WidgetBadLinkedEntities
    /\ WidgetAt(walk.before, <<1, 2>>) = WidgetLinked
    /\ WidgetAt(walk.dashboard, <<1, 2>>) = WidgetLinked

\* The widget is one the transformer fn accepts
AcceptedBy(fn, w) ==
    IF fn = "transform_linked_entities"
    THEN WellFormedLinkedEntities(w)
    ELSE WellFormedRawConfiguration(w)

\* pages is absent or a sequence of mappings, whose widgets is absent or a
\* sequence of mappings that the transformer accepts
WalkWellFormed(d, fn) ==
    \/ ~HasKey(d, "pages")
    \/ /\ IsList(d.v["pages"])
       /\ \A i \in 1..Len(d.v["pages"].v) :
             LET page == d.v["pages"].v[i] IN
             /\ IsDict(page)
             /\ \/ ~HasKey(page, "widgets")
                \/ /\ IsList(page.v["widgets"])
                   /\ \A j \in 1..Len(page.v["widgets"].v) :
                         /\ IsDict(page.v["widgets"].v[j])
                         /\ AcceptedBy(fn, page.v["widgets"].v[j])

\* Position p comes before position q in walk order: page order, then
\* widget order
WalkBefore(p, q) == p[1] < q[1] \/ (p[1] = q[1] /\ p[2] < q[2])

\* C24: on a well-formed dashboard the walk raises nothing; the transformer
\* is invoked on the widgets in page order and then widget order, on none of
\* them twice; and when the walk has returned it has been invoked on every
\* widget of every page, the pages after a page without widgets included,
\* and each widget is what the transformer makes of it.
C24_EveryWidgetOnceInOrder ==
    (walk.pass >= 1 /\ WalkWellFormed(walk.before, walk.fn)) =>
        /\ walk.at # "raised"
        /\ \A a, b \in 1..Len(walk.invoked) :
              a < b => WalkBefore(walk.invoked[a], walk.invoked[b])
        /\ walk.at = "returned" =>
              /\ { walk.invoked[a] : a \in 1..Len(walk.invoked) }
                    = Positions(walk.before)
              /\ \A pos \in Positions(walk.before) :
                    WidgetAt(walk.dashboard, pos)
                       = transformerFn(walk.fn, WidgetAt(walk.before, pos),
                                       walk.refresh_rate).value

\* The walk has returned from a dashboard whose first page has an empty
\* sequence of widgets: the widget of the second page is transformed
C24_Witness ==
    /\ walk.pass = 1
    /\ walk.at = "returned"
    /\ walk.fn = "update_refresh_rate"
    /\ WalkWellFormed(walk.before, walk.fn)
    /\ Len(PagesOf(walk.before)) = 2
    /\ DictGet(PagesOf(walk.before)[1], "widgets") = JList(<<>>)
    /\ walk.invoked = << <<2, 1>> >>
    /\ WidgetAt(walk.dashboard, <<2, 1>>) # WidgetAt(walk.before, <<2, 1>>)
    /\ HasFrequency(WidgetAt(walk.dashboard, <<2, 1>>), JNum(walk.refresh_rate))

\* ------------------------------------------------------------------------
\* Termination: the batch run and the paginated query under fairness
\* ------------------------------------------------------------------------

\* The entries, the fetch answers and the update answers of the runs under
\* fairness: a valid entry for each of two GUIDs and one that
\* is skipped; a dashboard that is updated, one that is invalid, a null
\* entity and the failures of the HTTP call
FairConfigs ==
    { JDict([dashboards |-> JList(l)]) :
        l \in SeqsUpTo({ JDict([guid |-> JStr("g1"), refreshRate |-> JNum(1)]),
                         JDict([guid |-> JStr("g2"), refreshRate |-> JNum(2)]),
                         JStr("g1") }, MaxEntries) }
    \cup { EmptyDict }

FairFetchAnswers ==
    { EntityAnswer(JDict([name |-> JStr("d"),
                          pages |-> JList(<<Page(JList(<<WidgetTypical>>))>>)])),
      EntityAnswer(JDict([name |-> JStr("d"),
                          pages |-> JList(<<Page(JList(<<WidgetBadRefreshRate>>))>>)])),
      EntityAnswer(JNull),
      HttpAnswer("HTTPError", 500, "ok", JNull),
      HttpAnswer("TimeoutError", 0, "ok", JNull) }

FairUpdateAnswers ==
    { UpdateErrorsAnswer(JNull),
      HttpAnswer("HTTPError", 500, "ok", JNull),
      HttpAnswer("URLError", 0, "ok", JNull) }

\* A batch run, or a query_graphql call with or without a cursor path
InitFair ==
    \/ /\ config \in FairConfigs
       /\ backup_dir \in BackupDirs
       /\ pc = "start"
       /\ idx = 1
       /\ dashboard = JNull
       /\ results = <<>>
       /\ report = <<>>
       /\ raised = NoError
       /\ calls = <<>>
       /\ query = NoQuery
       /\ walk = NoWalk
    \/ InitQuery

NextFair ==
    \/ Start
    \/ LoopNext
    \/ Report
    \/ \E resp \in FairFetchAnswers : GetDashboard(resp)
    \/ FixupLinkedEntities
    \/ \E outcome \in {NoError, "OSError"} : BackupDashboard(outcome)
    \/ UpdateRefreshRates
    \/ \E resp \in FairUpdateAnswers : UpdateDashboard(resp)
    \/ PostGraphQL

\* The script is one sequential process and every urlopen call returns or
\* raises (timeout=30): a statement that can run does run
FairSpec == InitFair /\ [][NextFair]_vars /\ WF_vars(NextFair)

\* The run is over: the batch run has logged its status table or was left
\* by an exception; the query_graphql call has returned or raised
Terminated ==
    \/ pc \in {"done", "fatal"}
    \/ pc = "query_graphql" /\ (query.done \/ query.raised # NoError)

\* C25: every run terminates.  The fetch and the update never ask for a
\* second answer; a query without a cursor path posts once and is over
\* after that; and a query with a cursor path has ended its loop only after
\* a response whose cursor is falsy.
C25_EveryRunTerminates ==
    /\ <>Terminated
    /\ [](raised # "NoMoreAnswers")
    /\ [](query.next_cursor_path = NoCursorPath =>
             /\ Len(Requests) <= 1
             /\ Len(Requests) = 1 => (query.done \/ query.raised # NoError))
    /\ []((query.next_cursor_path # NoCursorPath /\ query.done /\ pc = "query_graphql") =>
             /\ Len(Requests) >= 1
             /\ AnsweredData(Requests[Len(Requests)].ans)
             /\ (PageReceived(Len(Requests)) =>
                    ~Truthy(ResponseCursor(Len(Requests)))))

\* A batch run of two entries has logged its status table for both
C25_Witness ==
    /\ pc = "done"
    /\ Len(Entries) = 2
    /\ DOMAIN report = {"g1", "g2"}
    /\ report["g1"] = "OK"
    /\ report["g2"] = "INVALID"

============================================================================
